---- MODULE Spec2Model ----
(***************************************************************************)
(* State-machine model of 7Zip.ShellExtension.cpp: the ExplorerCommand     *)
(* objects of the 7-Zip context menu.                                      *)
(*                                                                         *)
(* Two specifications share the module:                                    *)
(*   Spec     - the host calls GetState / GetTitle / GetFlags / Invoke of  *)
(*              a command (identified by its m_id) on an item array;       *)
(*   SpecLife - the host creates the root command, enumerates its          *)
(*              sub-commands and releases references (COM lifetime).       *)
(*                                                                         *)
(* A wide string is a sequence of one-character strings, so that the path  *)
(* decomposition of std::filesystem::path is computed character by         *)
(* character.                                                              *)
(***************************************************************************)
EXTENDS Integers, Sequences, FiniteSets, TLC

VARIABLES
    dirs,        \* filesystem: the paths GetFileAttributesW reports as directories
    installed,   \* filesystem: the 7-Zip tools that exist beside the DLL
    m_id,        \* ExplorerCommandBase::m_id of the command the host calls
    arr,         \* the IShellItemArray the host passes (the selection)
    call,        \* the last call of the host on the command: [op, ppNull]
    result,      \* what that call returned: [hr, state, title, flags, runs]
    heap,        \* live COM objects: object id (address) -> its fields
    hostRefs,    \* references the host was handed and has not released: id -> count
    g_ObjCount,  \* static LONG g_ObjCount
    g_LockCount, \* static LONG g_LockCount
    ret,         \* the last lifetime call: [op, on, hr, out, fetched, celt]
    calls        \* lifetime calls the host has made so far

vars == <<dirs, installed, m_id, arr, call, result, heap, hostRefs, g_ObjCount, g_LockCount, ret, calls>>

shellVars == <<dirs, installed, m_id, arr, call, result>>
lifeVars == <<heap, hostRefs, g_ObjCount, g_LockCount, ret, calls>>

----------------------------------------------------------------------------
(* Bounds of the model *)

\* longest item array the host passes
MaxSel == 2
\* objects alive at once (addresses `new` can hand out)
MaxObjs == 26
\* references the host holds at once
MaxHeld == 5
\* largest celt the host passes to Next
MaxCelt == 2
\* lifetime calls the host makes in one run
MaxCalls == 6
\* LockServer(TRUE) calls outstanding
MaxLock == 1

----------------------------------------------------------------------------
(* HRESULTs and shell constants *)

S_OK == "S_OK"
S_FALSE == "S_FALSE"
E_POINTER == "E_POINTER"
E_NOTIMPL == "E_NOTIMPL"
ECS_ENABLED == "ECS_ENABLED"
ECS_HIDDEN == "ECS_HIDDEN"
ECF_DEFAULT == "ECF_DEFAULT"
ECF_HASSUBCOMMANDS == "ECF_HASSUBCOMMANDS"

----------------------------------------------------------------------------
(* Wide strings *)

UpperCase == <<"A","B","C","D","E","F","G","H","I","J","K","L","M",
               "N","O","P","Q","R","S","T","U","V","W","X","Y","Z">>
LowerCase == <<"a","b","c","d","e","f","g","h","i","j","k","l","m",
               "n","o","p","q","r","s","t","u","v","w","x","y","z">>

\* towlower of one character
ToLower(c) ==
    IF \E i \in 1..Len(UpperCase) : UpperCase[i] = c
    THEN LowerCase[CHOOSE i \in 1..Len(UpperCase) : UpperCase[i] = c]
    ELSE c

\* _wcsicmp(a, b) == 0
WcsIEqual(a, b) ==
    /\ Len(a) = Len(b)
    /\ \A i \in 1..Len(a) : ToLower(a[i]) = ToLower(b[i])

IsSlash(c) == c \in {"\\", "/"}

\* std::filesystem::path: end of the root name ("C:"), 0 when there is none
RootNameEnd(p) ==
    IF Len(p) >= 2 /\ p[2] = ":" /\ ToLower(p[1]) \in {LowerCase[i] : i \in 1..Len(LowerCase)}
    THEN 2 ELSE 0

RECURSIVE SkipSlashes(_, _)
SkipSlashes(p, i) ==
    IF i < Len(p) /\ IsSlash(p[i + 1]) THEN SkipSlashes(p, i + 1) ELSE i

\* end of root name and root directory: the relative path starts after it
RelativeStart(p) == SkipSlashes(p, RootNameEnd(p))

\* index of the last slash after the root name, or the root name's end
RECURSIVE FilenameStart(_, _)
FilenameStart(p, i) ==
    IF i > RootNameEnd(p) /\ ~IsSlash(p[i]) THEN FilenameStart(p, i - 1) ELSE i

\* path::filename()
Filename(p) == SubSeq(p, FilenameStart(p, Len(p)) + 1, Len(p))

\* position of the dot that starts the extension of filename f, 0 when none:
\* "." and ".." have no extension, a leading dot starts no extension
RECURSIVE LastDot(_, _)
LastDot(f, i) ==
    IF i <= 1 THEN 0
    ELSE IF f[i] = "." THEN i
    ELSE LastDot(f, i - 1)

ExtensionStart(f) ==
    IF f = <<".">> \/ f = <<".", ".">> THEN 0 ELSE LastDot(f, Len(f))

\* path::extension()
Extension(p) ==
    LET f == Filename(p)
        d == ExtensionStart(f)
    IN  IF d = 0 THEN <<>> ELSE SubSeq(f, d, Len(f))

\* path::stem()
Stem(p) ==
    LET f == Filename(p)
        d == ExtensionStart(f)
    IN  IF d = 0 THEN f ELSE SubSeq(f, 1, d - 1)

RECURSIVE DropFilename(_, _, _)
DropFilename(p, rel, last) ==
    IF last > rel /\ ~IsSlash(p[last]) THEN DropFilename(p, rel, last - 1) ELSE last

RECURSIVE DropSlashes(_, _, _)
DropSlashes(p, rel, last) ==
    IF last > rel /\ IsSlash(p[last]) THEN DropSlashes(p, rel, last - 1) ELSE last

\* path::parent_path(): the path without its filename and the slashes before it
ParentPath(p) ==
    LET rel == RelativeStart(p)
    IN  SubSeq(p, 1, DropSlashes(p, rel, DropFilename(p, rel, Len(p))))

\* the generic form path comparison works on: one "\" for every run of slashes
RECURSIVE Generic(_)
Generic(p) ==
    IF p = <<>> THEN <<>>
    ELSE IF IsSlash(Head(p))
         THEN IF Len(p) >= 2 /\ IsSlash(p[2]) THEN Generic(Tail(p))
              ELSE <<"\\">> \o Generic(Tail(p))
         ELSE <<Head(p)>> \o Generic(Tail(p))

\* operator!= of std::filesystem::path
PathNotEqual(a, b) == Generic(a) # Generic(b)

----------------------------------------------------------------------------
(* Paths of the selection universe *)

P_a7z  == <<"C", ":", "\\", "d", "\\", "a", ".", "7", "z">>
P_azip == <<"C", ":", "\\", "d", "\\", "a", ".", "z", "i", "p">>
P_ea7z == <<"C", ":", "\\", "e", "\\", "a", ".", "7", "z">>
P_btxt == <<"C", ":", "\\", "d", "\\", "b", ".", "t", "x", "t">>
P_xZIP == <<"C", ":", "\\", "d", "\\", "x", ".", "Z", "I", "P">>
P_rgz  == <<"C", ":", "\\", "r", ".", "g", "z">>

Paths == {P_a7z, P_azip, P_ea7z, P_btxt, P_xZIP, P_rgz}

\* paths that may be directories on disk
DirCandidates == {P_xZIP}

\* an IShellItem: GetItemAt fails (ok = FALSE), or the item and the string
\* GetDisplayName(SIGDN_FILESYSPATH) gives, empty when it has no filesystem path
NoItem == [ok |-> FALSE, path |-> <<>>]
Items == {NoItem} \cup {[ok |-> TRUE, path |-> p] : p \in Paths \cup {<<>>}}

RECURSIVE SeqsUpTo(_, _)
SeqsUpTo(S, n) ==
    IF n = 0 THEN {<<>>}
    ELSE LET shorter == SeqsUpTo(S, n - 1)
         IN  shorter \cup {Append(s, x) : s \in {t \in shorter : Len(t) = n - 1}, x \in S}

\* psiItemArray: nullptr, an array whose GetCount fails, or an array of items
NullArr == [isNull |-> TRUE, countFails |-> FALSE, items |-> <<>>]
ItemArrays ==
    {NullArr, [isNull |-> FALSE, countFails |-> TRUE, items |-> <<[ok |-> TRUE, path |-> P_a7z]>>]}
    \cup {[isNull |-> FALSE, countFails |-> FALSE, items |-> s] : s \in SeqsUpTo(Items, MaxSel)}

Tools == {"7zG.exe", "7z.exe", "7zFM.exe"}

----------------------------------------------------------------------------
(* Helpers *)

\* Combine(GetModuleDir(g_hMod), name)
Combine(here, name) == [dir |-> here, file |-> name]

FileExists(p) == p.dir = "ModuleDir" /\ p.file \in installed

Find7zTool(name) ==
    LET p == Combine("ModuleDir", name)
    IN  IF FileExists(p) THEN p ELSE [dir |-> "", file |-> name]

IsDirectoryPath(p) == p \in dirs

\* the allow-list of IsArchiveExt
exts == << <<".", "7", "z">>, <<".", "z", "i", "p">>, <<".", "r", "a", "r">>,
           <<".", "t", "a", "r">>, <<".", "g", "z">>, <<".", "x", "z">>,
           <<".", "b", "z", "2">>, <<".", "c", "a", "b">>, <<".", "w", "i", "m">>,
           <<".", "l", "z", "m", "a">>, <<".", "z", "s", "t">>, <<".", "a", "r", "j">> >>

IsArchiveExt(ext) == \E i \in 1..Len(exts) : WcsIEqual(ext, exts[i])

BaseName(path) == IF IsDirectoryPath(path) THEN Filename(path) ELSE Stem(path)

Archive_ == <<"A", "r", "c", "h", "i", "v", "e">>
Ext7z == <<".", "7", "z">>
ExtZip == <<".", "z", "i", "p">>

\* the loop of DefaultArchiveName: FALSE at the first path with another parent
RECURSIVE AllSameParent(_, _, _)
AllSameParent(paths, parent, i) ==
    IF i > Len(paths) THEN TRUE
    ELSE IF PathNotEqual(ParentPath(paths[i]), parent) THEN FALSE
    ELSE AllSameParent(paths, parent, i + 1)

\* DefaultArchiveName naming the first entry's parent without comparing the others
DefaultArchiveName_FirstParent(paths, ext) ==
    IF paths = <<>> THEN Archive_ \o ext
    ELSE IF Len(paths) = 1 THEN BaseName(paths[1]) \o ext
    ELSE LET parent == ParentPath(paths[1])
         IN  IF Filename(parent) # <<>>
             THEN Filename(parent) \o ext
             ELSE Archive_ \o ext

DefaultArchiveName(paths, ext) ==
    IF paths = <<>> THEN Archive_ \o ext
    ELSE IF Len(paths) = 1 THEN BaseName(paths[1]) \o ext
    ELSE LET parent == ParentPath(paths[1])
         IN  IF AllSameParent(paths, parent, 1) /\ Filename(parent) # <<>>
             THEN Filename(parent) \o ext
             ELSE Archive_ \o ext

----------------------------------------------------------------------------
(* Command IDs and the static titles the constructors give *)

CommandIDs == {"Open", "Test", "ExtractFiles", "ExtractHere", "ExtractTo",
               "AddToArchive", "AddTo7z", "AddToZip",
               "EmailArchive", "Email7z", "EmailZip",
               "CRCMenu", "CRC32", "CRC64", "SHA1", "SHA256"}

StaticTitle(id) ==
    CASE id = "Open"         -> "Open archive"
      [] id = "ExtractFiles" -> "Extract files..."
      [] id = "ExtractHere"  -> "Extract Here"
      [] id = "ExtractTo"    -> "Extract to \\<Folder>\\"
      [] id = "Test"         -> "Test archive"
      [] id = "AddToArchive" -> "Add to archive..."
      [] id = "AddTo7z"      -> "Add to \"<Name>.7z\""
      [] id = "AddToZip"     -> "Add to \"<Name>.zip\""
      [] id = "EmailArchive" -> "Compress and email..."
      [] id = "Email7z"      -> "Compress to \"<Name>.7z\" and email"
      [] id = "EmailZip"     -> "Compress to \"<Name>.zip\" and email"
      [] id = "CRCMenu"      -> "CRC SHA"
      [] id = "CRC32"        -> "CRC-32"
      [] id = "CRC64"        -> "CRC-64"
      [] id = "SHA1"         -> "SHA-1"
      [] id = "SHA256"       -> "SHA-256"

\* A string built by concatenation is the sequence of its pieces: a literal of
\* the source, or a wide string computed at run time.
Lit(s) == [lit |-> s]
Txt(w) == [txt |-> w]

----------------------------------------------------------------------------
(* ExplorerCommandBase *)

RECURSIVE CollectFrom(_, _)
CollectFrom(items, i) ==
    IF i > Len(items) THEN <<>>
    ELSE IF items[i].ok /\ items[i].path # <<>>
         THEN <<items[i].path>> \o CollectFrom(items, i + 1)
         ELSE CollectFrom(items, i + 1)

\* CollectPaths without the test for an empty path
RECURSIVE CollectFrom_KeepEmpty(_, _)
CollectFrom_KeepEmpty(items, i) ==
    IF i > Len(items) THEN <<>>
    ELSE IF items[i].ok
         THEN <<items[i].path>> \o CollectFrom_KeepEmpty(items, i + 1)
         ELSE CollectFrom_KeepEmpty(items, i + 1)

CollectPaths_KeepEmpty(a) ==
    IF a.isNull THEN <<>>
    ELSE IF a.countFails THEN <<>>
    ELSE CollectFrom_KeepEmpty(a.items, 1)

CollectPaths(a) ==
    IF a.isNull THEN <<>>
    ELSE IF a.countFails THEN <<>>
    ELSE CollectFrom(a.items, 1)

\* the loop of GetState: FALSE at the first path whose extension is no archive's
RECURSIVE AllArchives(_, _)
AllArchives(paths, i) ==
    IF i > Len(paths) THEN TRUE
    ELSE IF ~IsArchiveExt(Extension(paths[i])) THEN FALSE
    ELSE AllArchives(paths, i + 1)

\* GetState with the Open case testing allArchives alone
StateOf_NoSingleCheck(id, paths) ==
    IF paths = <<>> THEN ECS_HIDDEN
    ELSE LET allArchives == AllArchives(paths, 1)
         IN  CASE id \in {"Open", "Test", "ExtractFiles", "ExtractHere", "ExtractTo"} ->
                    IF allArchives THEN ECS_ENABLED ELSE ECS_HIDDEN
               [] OTHER -> ECS_ENABLED

\* *pState of GetState
StateOf(id, paths) ==
    IF paths = <<>> THEN ECS_HIDDEN
    ELSE LET allArchives == AllArchives(paths, 1)
         IN  CASE id = "Open" ->
                    IF Len(paths) = 1 /\ allArchives THEN ECS_ENABLED ELSE ECS_HIDDEN
               [] id \in {"Test", "ExtractFiles", "ExtractHere", "ExtractTo"} ->
                    IF allArchives THEN ECS_ENABLED ELSE ECS_HIDDEN
               [] OTHER -> ECS_ENABLED

\* the text GetTitle duplicates into *ppszName
TitleOf(id, paths) ==
    IF id \in {"AddTo7z", "AddToZip", "Email7z", "EmailZip"}
    THEN LET ext == IF id \in {"AddToZip", "EmailZip"} THEN ExtZip ELSE Ext7z
             base == DefaultArchiveName(paths, ext)
         IN  IF id \in {"AddTo7z", "AddToZip"}
             THEN <<Lit("Add to \""), Txt(base), Lit("\"")>>
             ELSE <<Lit("Compress to \""), Txt(base), Lit("\" and email")>>
    ELSE IF id = "ExtractTo"
    THEN IF paths # <<>>
         THEN <<Lit("Extract to \""), Txt(BaseName(paths[1])), Lit("\\\"")>>
         ELSE <<Lit("Extract to \\<Folder>\\")>>
    ELSE <<Lit(StaticTitle(id))>>

\* quoteJoin quoting the first path only
quoteJoin_FirstOnly(v) ==
    IF v = <<>> THEN <<>> ELSE <<Lit("\""), Txt(Head(v)), Lit("\" ")>>

RECURSIVE quoteJoin(_)
quoteJoin(v) ==
    IF v = <<>> THEN <<>>
    ELSE <<Lit("\""), Txt(Head(v)), Lit("\" ")>> \o quoteJoin(Tail(v))

\* one ShellExecuteExW call
ShellRun(exe, args) == [exe |-> exe, args |-> args, cwd |-> ""]

\* "x -y -o\"" + folder + "\\\" \"" + p + "\""
ExtractIntoFolder(p) ==
    ShellRun(Find7zTool("7zG.exe"),
             <<Lit("x -y -o\""), Txt(BaseName(p)), Lit("\\\" \""), Txt(p), Lit("\"")>>)

\* ExtractHere without the single-archive case
ExtractHereRuns_AlwaysFolder(paths) == [i \in 1..Len(paths) |-> ExtractIntoFolder(paths[i])]

\* ExtractHere: in place for one path, else each path into its own folder
ExtractHereRuns(paths) ==
    IF Len(paths) = 1
    THEN <<ShellRun(Find7zTool("7zG.exe"), <<Lit("x -y \""), Txt(paths[1]), Lit("\"")>>)>>
    ELSE [i \in 1..Len(paths) |-> ExtractIntoFolder(paths[i])]

\* ExtractTo extracting a single archive in place, as ExtractHere does
ExtractToRuns_Smart(paths) ==
    IF Len(paths) = 1
    THEN <<ShellRun(Find7zTool("7zG.exe"), <<Lit("x -y \""), Txt(paths[1]), Lit("\"")>>)>>
    ELSE [i \in 1..Len(paths) |-> ExtractIntoFolder(paths[i])]

\* ExtractTo: every path into its own folder
ExtractToRuns(paths) == [i \in 1..Len(paths) |-> ExtractIntoFolder(paths[i])]

\* the ShellRun calls of Invoke, in order
RunsOf(id, paths) ==
    LET sevenZG == Find7zTool("7zG.exe")
        sevenZ  == Find7zTool("7z.exe")
        sevenFM == Find7zTool("7zFM.exe")
    IN  IF paths = <<>> THEN <<>>
        ELSE CASE id = "Open" ->
                    <<ShellRun(sevenFM, <<Lit("\""), Txt(paths[1]), Lit("\"")>>)>>
               [] id = "Test" -> <<ShellRun(sevenZG, <<Lit("t ")>> \o quoteJoin(paths))>>
               [] id = "ExtractFiles" -> <<ShellRun(sevenZG, <<Lit("x ")>> \o quoteJoin(paths))>>
               [] id = "ExtractHere" -> ExtractHereRuns(paths)
               [] id = "ExtractTo" -> ExtractToRuns(paths)
               [] id \in {"AddToArchive", "EmailArchive"} ->
                    <<ShellRun(sevenZG, <<Lit("a ")>> \o quoteJoin(paths))>>
               [] id \in {"AddTo7z", "Email7z"} ->
                    <<ShellRun(sevenZG, <<Lit("a \""), Txt(DefaultArchiveName(paths, Ext7z)),
                                          Lit("\" ")>> \o quoteJoin(paths))>>
               [] id \in {"AddToZip", "EmailZip"} ->
                    <<ShellRun(sevenZG, <<Lit("a -tzip \""), Txt(DefaultArchiveName(paths, ExtZip)),
                                          Lit("\" ")>> \o quoteJoin(paths))>>
               [] id = "CRC32"  -> <<ShellRun(sevenZ, <<Lit("h -scrcCRC32 ")>> \o quoteJoin(paths))>>
               [] id = "CRC64"  -> <<ShellRun(sevenZ, <<Lit("h -scrcCRC64 ")>> \o quoteJoin(paths))>>
               [] id = "SHA1"   -> <<ShellRun(sevenZ, <<Lit("h -scrcSHA1 ")>> \o quoteJoin(paths))>>
               [] id = "SHA256" -> <<ShellRun(sevenZ, <<Lit("h -scrcSHA256 ")>> \o quoteJoin(paths))>>
               [] OTHER -> <<>>

FlagsOf(id) == IF id = "CRCMenu" THEN ECF_HASSUBCOMMANDS ELSE ECF_DEFAULT

NoResult == [hr |-> "", state |-> "", title |-> <<>>, flags |-> "", runs |-> <<>>]

GetState ==
    /\ call' = [op |-> "GetState", ppNull |-> FALSE]
    /\ result' = [NoResult EXCEPT !.hr = S_OK, !.state = StateOf(m_id, CollectPaths(arr))]
    /\ UNCHANGED <<dirs, installed, m_id, arr>>
    /\ UNCHANGED lifeVars

GetTitle ==
    \E ppNull \in BOOLEAN :
        /\ call' = [op |-> "GetTitle", ppNull |-> ppNull]
        /\ result' = IF ppNull THEN [NoResult EXCEPT !.hr = E_POINTER]
                     ELSE [NoResult EXCEPT !.hr = S_OK,
                                           !.title = TitleOf(m_id, CollectPaths(arr))]
        /\ UNCHANGED <<dirs, installed, m_id, arr>>
        /\ UNCHANGED lifeVars

Invoke ==
    /\ call' = [op |-> "Invoke", ppNull |-> FALSE]
    /\ result' = [NoResult EXCEPT !.hr = S_OK, !.runs = RunsOf(m_id, CollectPaths(arr))]
    /\ UNCHANGED <<dirs, installed, m_id, arr>>
    /\ UNCHANGED lifeVars

GetFlags ==
    /\ call' = [op |-> "GetFlags", ppNull |-> FALSE]
    /\ result' = [NoResult EXCEPT !.hr = S_OK, !.flags = FlagsOf(m_id)]
    /\ UNCHANGED <<dirs, installed, m_id, arr>>
    /\ UNCHANGED lifeVars

NoCall == [op |-> "none", ppNull |-> FALSE]
NoRet == [op |-> "none", on |-> 0, hr |-> "", out |-> 0, fetched |-> <<>>, celt |-> 0]
EmptyHeap == [o \in {} |-> 0]

InitLife ==
    /\ heap = EmptyHeap
    /\ hostRefs = EmptyHeap
    /\ g_ObjCount = 0
    /\ g_LockCount = 0
    /\ ret = NoRet
    /\ calls = 0

\* a command object after construction, a selection, a filesystem
Init ==
    /\ dirs \in SUBSET DirCandidates
    /\ installed \in {{}, Tools}
    /\ m_id \in CommandIDs
    /\ arr \in ItemArrays
    /\ call = NoCall
    /\ result = NoResult
    /\ InitLife

Next == GetState \/ GetTitle \/ Invoke \/ GetFlags

Spec == Init /\ [][Next]_vars

----------------------------------------------------------------------------
(* COM objects: heap[o] = [kind, m_ref, m_id, items, idx].                    *)
(*   "root"      ExplorerCommandRoot, items = subs                            *)
(*   "cmd"       ExplorerCommandBase                                          *)
(*   "crcparent" CRCMenuParent                                                *)
(*   "enum"      CommandEnum, items and idx                                   *)
(* A step is one call of the host; the Interlocked operations make the        *)
(* counters' updates atomic, so calls of several threads interleave as whole  *)
(* steps. st = [heap, count] is the heap and g_ObjCount inside a call.        *)
(* The ClassFactory the host calls CreateInstance and LockServer on has no    *)
(* state but its own reference count, which nothing here reads.               *)

CLASS_E_NOAGGREGATION == "CLASS_E_NOAGGREGATION"
E_NOINTERFACE == "E_NOINTERFACE"

\* the address operator new returns: a free one
NewId(h) == CHOOSE o \in 1..MaxObjs : o \notin DOMAIN h /\ \A q \in 1..(o - 1) : q \in DOMAIN h

CanAllocate(n) == Cardinality(DOMAIN heap) + n <= MaxObjs

Held == LET RECURSIVE Sum(_)
            Sum(D) == IF D = {} THEN 0
                      ELSE LET o == CHOOSE x \in D : TRUE IN hostRefs[o] + Sum(D \ {o})
        IN  Sum(DOMAIN hostRefs)

\* the host receives n more references to o
Hand(refs, o, n) ==
    IF n = 0 THEN refs
    ELSE IF o \in DOMAIN refs THEN [refs EXCEPT ![o] = @ + n]
    ELSE refs @@ (o :> n)

\* the host gives up one reference to o
Drop(refs, o) ==
    IF refs[o] > 1 THEN [refs EXCEPT ![o] = @ - 1]
    ELSE [q \in DOMAIN refs \ {o} |-> refs[q]]

Remove(h, o) == [q \in DOMAIN h \ {o} |-> h[q]]

Occurrences(items, o) == Cardinality({i \in 1..Len(items) : items[i] = o})

\* ExplorerCommandBase(id, title): m_ref 1, ++g_ObjCount
CommandObj(id) ==
    [kind |-> IF id = "CRCMenu" THEN "crcparent" ELSE "cmd",
     m_ref |-> 1, m_id |-> id, items |-> <<>>, idx |-> 0]

\* v.push_back(new ExplorerCommandBase(id, ...)) for each id: acc = [heap, count, v]
RECURSIVE PushCommands(_, _)
PushCommands(acc, ids) ==
    IF ids = <<>> THEN acc
    ELSE LET o == NewId(acc.heap)
         IN  PushCommands([heap |-> acc.heap @@ (o :> CommandObj(Head(ids))),
                           count |-> acc.count + 1,
                           v |-> Append(acc.v, o)], Tail(ids))

\* the sub-commands ExplorerCommandRoot() creates, in order
RootSubs == <<"Open", "ExtractFiles", "ExtractHere", "ExtractTo", "Test",
              "AddToArchive", "AddTo7z", "AddToZip",
              "EmailArchive", "Email7z", "EmailZip", "CRCMenu">>

\* the children CRCMenuParent::EnumSubCommands creates, in order
CRCChildren == <<"CRC32", "CRC64", "SHA1", "SHA256">>

\* new CommandEnum(v) at address e: a copy of v, every item AddRef'ed
CommandEnumNew(h, e, v, at) ==
    [o \in DOMAIN h |-> [h[o] EXCEPT !.m_ref = @ + Occurrences(v, o)]]
    @@ (e :> [kind |-> "enum", m_ref |-> 1, m_id |-> "", items |-> v, idx |-> at])

\* Release(): --m_ref, and at 0 the destructor and the delete
RECURSIVE ReleaseObj(_, _)
RECURSIVE ReleaseEach(_, _)
ReleaseObj(st, o) ==
    LET c == st.heap[o].m_ref - 1
        obj == st.heap[o]
    IN  IF c # 0 THEN [st EXCEPT !.heap[o].m_ref = c]
        ELSE LET st1 == IF obj.kind \in {"enum", "root"}
                        THEN ReleaseEach([st EXCEPT !.heap[o].m_ref = 0], obj.items)
                        ELSE st
             IN  [heap |-> Remove(st1.heap, o),
                  count |-> IF obj.kind \in {"root", "cmd", "crcparent"}
                            THEN st1.count - 1 ELSE st1.count]

ReleaseEach(st, items) ==
    IF items = <<>> THEN st
    ELSE ReleaseEach(ReleaseObj(st, Head(items)), Tail(items))

Now == [heap |-> heap, count |-> g_ObjCount]

\* one more call of the host
Called == calls' = calls + 1

Returns(op, on, hr, out, fetched) ==
    [op |-> op, on |-> on, hr |-> hr, out |-> out, fetched |-> fetched, celt |-> 0]

\* the same for a call that was passed celt
ReturnsFor(celt, r) == [r EXCEPT !.celt = celt]

HeldOfKind(kinds) == {o \in DOMAIN hostRefs : heap[o].kind \in kinds}

\* ExplorerCommandRoot(): ++g_ObjCount, then the twelve sub-commands
RootNew(st) ==
    LET r == NewId(st.heap)
        blank == st.heap @@ (r :> [kind |-> "root", m_ref |-> 1, m_id |-> "",
                                   items |-> <<>>, idx |-> 0])
        acc == PushCommands([heap |-> blank, count |-> st.count + 1, v |-> <<>>], RootSubs)
    IN  [heap |-> [acc.heap EXCEPT ![r].items = acc.v], count |-> acc.count, obj |-> r]

\* ClassFactory::CreateInstance(pUnkOuter, riid, ppv)
CreateInstance ==
    /\ calls < MaxCalls
    /\ \E outer \in BOOLEAN, riidOk \in BOOLEAN :
        /\ CanAllocate(1 + Len(RootSubs))
        /\ Held < MaxHeld
        /\ IF outer
           THEN /\ ret' = Returns("CreateInstance", 0, CLASS_E_NOAGGREGATION, 0, <<>>)
                /\ UNCHANGED <<heap, hostRefs, g_ObjCount>>
           ELSE LET made == RootNew(Now)
                    obj == made.obj
                    asked == IF riidOk THEN [made.heap EXCEPT ![obj].m_ref = @ + 1]
                             ELSE made.heap
                    st == ReleaseObj([heap |-> asked, count |-> made.count], obj)
                IN  /\ heap' = st.heap
                    /\ g_ObjCount' = st.count
                    /\ hostRefs' = IF riidOk THEN Hand(hostRefs, obj, 1) ELSE hostRefs
                    /\ ret' = Returns("CreateInstance", 0,
                                      IF riidOk THEN S_OK ELSE E_NOINTERFACE,
                                      IF riidOk THEN obj ELSE 0, <<>>)
        /\ UNCHANGED g_LockCount
        /\ Called
        /\ UNCHANGED shellVars

\* ClassFactory::LockServer(fLock); the host unlocks only what it locked
LockServer ==
    /\ calls < MaxCalls
    /\ \E fLock \in BOOLEAN :
        /\ IF fLock THEN g_LockCount < MaxLock ELSE g_LockCount > 0
        /\ g_LockCount' = IF fLock THEN g_LockCount + 1 ELSE g_LockCount - 1
        /\ ret' = Returns("LockServer", 0, S_OK, 0, <<>>)
        /\ UNCHANGED <<heap, hostRefs, g_ObjCount>>
        /\ Called
        /\ UNCHANGED shellVars

\* the value DllCanUnloadNow returns
CanUnloadNow == IF g_ObjCount = 0 /\ g_LockCount = 0 THEN S_OK ELSE S_FALSE

DllCanUnloadNow ==
    /\ calls < MaxCalls
    /\ ret' = Returns("DllCanUnloadNow", 0, CanUnloadNow, 0, <<>>)
    /\ UNCHANGED <<heap, hostRefs, g_ObjCount, g_LockCount>>
    /\ Called
    /\ UNCHANGED shellVars

\* ExplorerCommandRoot::EnumSubCommands: new CommandEnum(subs), then AddRef
RootEnumSubCommands(st, o) ==
    LET e == NewId(st.heap)
        h == CommandEnumNew(st.heap, e, st.heap[o].items, 0)
    IN  [heap |-> [h EXCEPT ![e].m_ref = @ + 1], count |-> st.count, out |-> e]

\* EnumSubCommands handing out an enumerator that starts after the first child
CRCEnumSubCommands_Moved(st, o) ==
    LET acc == PushCommands([heap |-> st.heap, count |-> st.count, v |-> <<>>], CRCChildren)
        e == NewId(acc.heap)
        h == CommandEnumNew(acc.heap, e, acc.v, 1)
    IN  [heap |-> [h EXCEPT ![e].m_ref = @ + 1], count |-> acc.count, out |-> e]

\* CRCMenuParent::EnumSubCommands: four new children, new CommandEnum(v), then AddRef
CRCEnumSubCommands(st, o) ==
    LET acc == PushCommands([heap |-> st.heap, count |-> st.count, v |-> <<>>], CRCChildren)
        e == NewId(acc.heap)
        h == CommandEnumNew(acc.heap, e, acc.v, 0)
    IN  [heap |-> [h EXCEPT ![e].m_ref = @ + 1], count |-> acc.count, out |-> e]

\* IExplorerCommand::EnumSubCommands(ppEnum) of a command the host holds
EnumSubCommands ==
    /\ calls < MaxCalls
    /\ \E o \in HeldOfKind({"root", "cmd", "crcparent"}) :
        /\ IF heap[o].kind = "cmd"
           THEN /\ ret' = Returns("EnumSubCommands", o, E_NOTIMPL, 0, <<>>)
                /\ UNCHANGED <<heap, hostRefs, g_ObjCount>>
           ELSE /\ CanAllocate(IF heap[o].kind = "root" THEN 1 ELSE 1 + Len(CRCChildren))
                /\ Held < MaxHeld
                /\ LET st == IF heap[o].kind = "root" THEN RootEnumSubCommands(Now, o)
                             ELSE CRCEnumSubCommands(Now, o)
                   IN  /\ heap' = st.heap
                       /\ g_ObjCount' = st.count
                       /\ hostRefs' = Hand(hostRefs, st.out, 1)
                       /\ ret' = Returns("EnumSubCommands", o, S_OK, st.out, <<>>)
        /\ UNCHANGED g_LockCount
        /\ Called
        /\ UNCHANGED shellVars

Min(a, b) == IF a < b THEN a ELSE b

\* the celt values the host passes to Skip: short steps, and the step to the last sub-command
SkipCelts == (1..MaxCelt) \cup {Len(RootSubs) - 1}

\* Next stopping one item before the end of the list
NextFetched_StopsEarly(e, celt) ==
    SubSeq(e.items, e.idx + 1, e.idx + Min(celt, Len(e.items) - 1 - e.idx))

\* CommandEnum::Next(celt, rgelt, pceltFetched): what it fetches
NextFetched(e, celt) ==
    SubSeq(e.items, e.idx + 1, e.idx + Min(celt, Len(e.items) - e.idx))

\* IEnumExplorerCommand::Next on an enumerator (or the root) the host holds
EnumNext ==
    /\ calls < MaxCalls
    /\ \E o \in HeldOfKind({"enum", "root"}), celt \in 1..MaxCelt :
        /\ IF heap[o].kind = "root"
           THEN /\ ret' = Returns("Next", o, E_NOTIMPL, 0, <<>>)
                /\ UNCHANGED <<heap, hostRefs>>
           ELSE LET got == NextFetched(heap[o], celt)
                    moved == [heap EXCEPT ![o].idx = @ + Len(got)]
                IN  /\ Held + Len(got) <= MaxHeld
                    /\ heap' = [q \in DOMAIN moved |->
                                  [moved[q] EXCEPT !.m_ref = @ + Occurrences(got, q)]]
                    /\ hostRefs' = [q \in DOMAIN hostRefs \cup {got[i] : i \in 1..Len(got)} |->
                                      (IF q \in DOMAIN hostRefs THEN hostRefs[q] ELSE 0)
                                      + Occurrences(got, q)]
                    /\ ret' = ReturnsFor(celt, Returns("Next", o,
                                      IF Len(got) = celt THEN S_OK ELSE S_FALSE, 0, got))
        /\ UNCHANGED <<g_ObjCount, g_LockCount>>
        /\ Called
        /\ UNCHANGED shellVars

\* IEnumExplorerCommand::Skip(celt)
EnumSkip ==
    /\ calls < MaxCalls
    /\ \E o \in HeldOfKind({"enum", "root"}), celt \in SkipCelts :
        /\ IF heap[o].kind = "root"
           THEN /\ ret' = Returns("Skip", o, E_NOTIMPL, 0, <<>>)
                /\ UNCHANGED heap
           ELSE /\ heap' = [heap EXCEPT ![o].idx = Min(@ + celt, Len(heap[o].items))]
                /\ ret' = ReturnsFor(celt, Returns("Skip", o, S_OK, 0, <<>>))
        /\ UNCHANGED <<hostRefs, g_ObjCount, g_LockCount>>
        /\ Called
        /\ UNCHANGED shellVars

\* IEnumExplorerCommand::Reset()
EnumReset ==
    /\ calls < MaxCalls
    /\ \E o \in HeldOfKind({"enum", "root"}) :
        /\ IF heap[o].kind = "root"
           THEN /\ ret' = Returns("Reset", o, E_NOTIMPL, 0, <<>>)
                /\ UNCHANGED heap
           ELSE /\ heap' = [heap EXCEPT ![o].idx = 0]
                /\ ret' = Returns("Reset", o, S_OK, 0, <<>>)
        /\ UNCHANGED <<hostRefs, g_ObjCount, g_LockCount>>
        /\ Called
        /\ UNCHANGED shellVars

\* IEnumExplorerCommand::Clone(pp)
EnumClone ==
    /\ calls < MaxCalls
    /\ \E o \in HeldOfKind({"enum", "root"}), ppNull \in BOOLEAN :
        /\ IF heap[o].kind = "root"
           THEN /\ ret' = Returns("Clone", o, E_NOTIMPL, 0, <<>>)
                /\ UNCHANGED <<heap, hostRefs>>
           ELSE IF ppNull
           THEN /\ ret' = Returns("Clone", o, E_POINTER, 0, <<>>)
                /\ UNCHANGED <<heap, hostRefs>>
           ELSE /\ CanAllocate(1)
                /\ Held < MaxHeld
                /\ LET e == NewId(heap)
                   IN  /\ heap' = CommandEnumNew(heap, e, heap[o].items, heap[o].idx)
                       /\ hostRefs' = Hand(hostRefs, e, 1)
                       /\ ret' = Returns("Clone", o, S_OK, e, <<>>)
        /\ UNCHANGED <<g_ObjCount, g_LockCount>>
        /\ Called
        /\ UNCHANGED shellVars

\* IUnknown::AddRef of an object the host holds
AddRef ==
    /\ calls < MaxCalls
    /\ \E o \in DOMAIN hostRefs :
        /\ Held < MaxHeld
        /\ heap' = [heap EXCEPT ![o].m_ref = @ + 1]
        /\ hostRefs' = Hand(hostRefs, o, 1)
        /\ ret' = Returns("AddRef", o, S_OK, 0, <<>>)
        /\ UNCHANGED <<g_ObjCount, g_LockCount>>
        /\ Called
        /\ UNCHANGED shellVars

\* IUnknown::Release of a reference the host holds
Release ==
    /\ calls < MaxCalls
    /\ \E o \in DOMAIN hostRefs :
        LET st == ReleaseObj(Now, o)
        IN  /\ heap' = st.heap
            /\ g_ObjCount' = st.count
            /\ hostRefs' = Drop(hostRefs, o)
            /\ ret' = Returns("Release", o, S_OK, 0, <<>>)
            /\ UNCHANGED g_LockCount
            /\ Called
            /\ UNCHANGED shellVars

\* after DllMain: no object, no lock; the command calls are not part of it
InitLifeOnly ==
    /\ dirs = {}
    /\ installed = {}
    /\ m_id = "Open"
    /\ arr = NullArr
    /\ call = NoCall
    /\ result = NoResult
    /\ InitLife

NextLife ==
    \/ CreateInstance
    \/ LockServer
    \/ DllCanUnloadNow
    \/ EnumSubCommands
    \/ EnumNext
    \/ EnumSkip
    \/ EnumReset
    \/ EnumClone
    \/ AddRef
    \/ Release

SpecLife == InitLifeOnly /\ [][NextLife]_vars

----------------------------------------------------------------------------
(* Reading a call's outcome *)

\* the selection S: the paths the item array resolves to
Sel == CollectPaths(arr)

IsTxt(piece) == "txt" \in DOMAIN piece

RECURSIVE TxtPieces(_)
TxtPieces(args) ==
    IF args = <<>> THEN <<>>
    ELSE IF IsTxt(Head(args)) THEN <<Head(args).txt>> \o TxtPieces(Tail(args))
    ELSE TxtPieces(Tail(args))

\* the destination folder a run passes with -o"<folder>\": <<folder>>, or <<>>
OutFolder(run) ==
    IF Len(run.args) >= 3 /\ run.args[1] = Lit("x -y -o\"") /\ run.args[3] = Lit("\\\" \"")
    THEN <<run.args[2].txt>> ELSE <<>>

\* the paths a run hands to the tool
RunPaths(run) ==
    IF OutFolder(run) # <<>> THEN Tail(TxtPieces(run.args)) ELSE TxtPieces(run.args)

EveryEntryArchiveExt(S) == \A i \in 1..Len(S) : IsArchiveExt(Extension(S[i]))

ArchiveOnlyIDs == {"Test", "ExtractFiles", "ExtractHere", "ExtractTo"}
AlwaysIDs == {"AddToArchive", "AddTo7z", "AddToZip", "EmailArchive", "Email7z", "EmailZip",
              "CRCMenu", "CRC32", "CRC64", "SHA1", "SHA256"}

\* the visibility policy of an action on selection S
Policy(id, S) ==
    IF S = <<>> THEN ECS_HIDDEN
    ELSE IF id = "Open"
         THEN IF Len(S) = 1 /\ EveryEntryArchiveExt(S) THEN ECS_ENABLED ELSE ECS_HIDDEN
    ELSE IF id \in ArchiveOnlyIDs
         THEN IF EveryEntryArchiveExt(S) THEN ECS_ENABLED ELSE ECS_HIDDEN
    ELSE ECS_ENABLED

----------------------------------------------------------------------------
(* C1: GetState answers each action's visibility policy: Hidden on an empty  *)
(* selection; Open Enabled iff exactly one entry and it has an archive       *)
(* extension (Hidden for two or more); Test / ExtractFiles / ExtractHere /   *)
(* ExtractTo Enabled iff every entry has an archive extension; every Add,    *)
(* Email and hash action Enabled iff the selection is non-empty.             *)
C1_GetStatePolicy ==
    call.op = "GetState" =>
        /\ result.hr = S_OK
        /\ m_id \in {"Open"} \cup ArchiveOnlyIDs \cup AlwaysIDs
        /\ result.state = Policy(m_id, Sel)
        /\ (Sel = <<>> => result.state = ECS_HIDDEN)
        /\ (m_id = "Open" /\ Len(Sel) >= 2 => result.state = ECS_HIDDEN)
        /\ (m_id \in AlwaysIDs => (result.state = ECS_ENABLED <=> Sel # <<>>))

\* Open on two archives: Hidden although every entry is an archive
C1_Witness ==
    /\ call.op = "GetState"
    /\ m_id = "Open"
    /\ Len(Sel) = 2
    /\ EveryEntryArchiveExt(Sel)
    /\ result.state = ECS_HIDDEN

----------------------------------------------------------------------------
NamingIDs == {"AddTo7z", "AddToZip", "Email7z", "EmailZip"}
ExtOf(id) == IF id \in {"AddToZip", "EmailZip"} THEN ExtZip ELSE Ext7z

SameImmediateParent(S) ==
    \A i, j \in 1..Len(S) : ~PathNotEqual(ParentPath(S[i]), ParentPath(S[j]))

\* the default archive name the claim describes
ExpectedName(S, ext) ==
    IF S = <<>> THEN Archive_ \o ext
    ELSE IF Len(S) = 1
         THEN (IF S[1] \in dirs THEN Filename(S[1]) ELSE Stem(S[1])) \o ext
    ELSE IF SameImmediateParent(S) /\ Filename(ParentPath(S[1])) # <<>>
         THEN Filename(ParentPath(S[1])) \o ext
    ELSE Archive_ \o ext

Reordered(S, perm) == [i \in 1..Len(S) |-> S[perm[i]]]

(* C2: DefaultArchiveName(S, ext) is "Archive"+ext for an empty S, the base   *)
(* name of the entry + ext for one entry, and for two or more entries the     *)
(* final component of the shared parent + ext when all entries have the same  *)
(* parent and that component is non-empty, else "Archive"+ext; reordering S   *)
(* does not change it. Read from the label GetTitle renders with it.          *)
C2_DefaultArchiveName ==
    (call.op = "GetTitle" /\ ~call.ppNull /\ m_id \in NamingIDs) =>
        /\ Len(result.title) = 3
        /\ result.title[2] = Txt(ExpectedName(Sel, ExtOf(m_id)))
        /\ \A perm \in Permutations(1..Len(Sel)) :
              Txt(DefaultArchiveName(Reordered(Sel, perm), ExtOf(m_id))) = result.title[2]

\* two entries with different parents: the name is Archive.7z
C2_Witness ==
    /\ call.op = "GetTitle"
    /\ ~call.ppNull
    /\ m_id = "AddTo7z"
    /\ Sel = <<P_a7z, P_ea7z>>
    /\ result.title[2] = Txt(Archive_ \o Ext7z)

----------------------------------------------------------------------------
(* C3: Invoke of ExtractHere on one archive makes one dispatch with no        *)
(* destination folder; on n >= 2 archives it makes n dispatches in selection  *)
(* order, the i-th extracting only the i-th archive into the folder named by  *)
(* that archive's base name.                                                   *)
C3_ExtractHereSmart ==
    (call.op = "Invoke" /\ m_id = "ExtractHere" /\ Sel # <<>> /\ EveryEntryArchiveExt(Sel)) =>
        /\ result.hr = S_OK
        /\ Len(Sel) = 1 =>
              /\ Len(result.runs) = 1
              /\ OutFolder(result.runs[1]) = <<>>
              /\ RunPaths(result.runs[1]) = <<Sel[1]>>
        /\ Len(Sel) >= 2 =>
              /\ Len(result.runs) = Len(Sel)
              /\ \A i \in 1..Len(Sel) :
                    /\ OutFolder(result.runs[i]) = <<BaseName(Sel[i])>>
                    /\ RunPaths(result.runs[i]) = <<Sel[i]>>

\* ExtractHere on two archives with different base names: one run each, into
\* the folders a\ and r\
C3_Witness ==
    /\ call.op = "Invoke"
    /\ m_id = "ExtractHere"
    /\ Sel = <<P_a7z, P_rgz>>
    /\ Len(result.runs) = 2
    /\ OutFolder(result.runs[1]) = <<<<"a">>>>
    /\ OutFolder(result.runs[2]) = <<<<"r">>>>

----------------------------------------------------------------------------
(* C4: Invoke of ExtractTo on a non-empty selection makes one dispatch per    *)
(* entry, each into the folder named by that entry's base name, also for a    *)
(* single archive, where ExtractHere targets no folder.                       *)
C4_ExtractToClassic ==
    (call.op = "Invoke" /\ m_id = "ExtractTo" /\ Sel # <<>>) =>
        /\ result.hr = S_OK
        /\ Len(result.runs) = Len(Sel)
        /\ \A i \in 1..Len(Sel) :
              /\ OutFolder(result.runs[i]) = <<BaseName(Sel[i])>>
              /\ RunPaths(result.runs[i]) = <<Sel[i]>>
        /\ Len(Sel) = 1 =>
              /\ Len(RunsOf("ExtractHere", Sel)) = 1
              /\ OutFolder(RunsOf("ExtractHere", Sel)[1]) = <<>>

\* ExtractTo on the single archive a.7z targets a\
C4_Witness ==
    /\ call.op = "Invoke"
    /\ m_id = "ExtractTo"
    /\ Sel = <<P_a7z>>
    /\ Len(result.runs) = 1
    /\ OutFolder(result.runs[1]) = <<<<"a">>>>

----------------------------------------------------------------------------
(* C5: on ExtractHere of two or more archives, the dispatches of two          *)
(* different archive paths target different destination folders.              *)
C5_FoldersNeverMix ==
    (call.op = "Invoke" /\ m_id = "ExtractHere" /\ Len(Sel) >= 2 /\ EveryEntryArchiveExt(Sel)) =>
        \A i, j \in 1..Len(result.runs) :
            RunPaths(result.runs[i]) # RunPaths(result.runs[j]) =>
                OutFolder(result.runs[i]) # OutFolder(result.runs[j])

----------------------------------------------------------------------------
ArchiveGatedIDs == {"Open"} \cup ArchiveOnlyIDs

(* C6: the archive-only actions are enabled only if every selected entry is   *)
(* a regular file (no directory) whose extension is in the allow-list.        *)
C6_DirectoriesAreNoArchives ==
    (call.op = "GetState" /\ m_id \in ArchiveGatedIDs /\ result.state = ECS_ENABLED) =>
        \A i \in 1..Len(Sel) :
            /\ ~IsDirectoryPath(Sel[i])
            /\ IsArchiveExt(Extension(Sel[i]))

----------------------------------------------------------------------------
\* the item array is null, empty, or none of its items resolves to a path
NoSelection(a) ==
    \/ a.isNull
    \/ /\ ~a.countFails
       /\ \A i \in 1..Len(a.items) : ~a.items[i].ok \/ a.items[i].path = <<>>

\* the label of an action that names no entry of a selection
Placeholder(id) ==
    CASE id \in {"AddTo7z", "AddToZip"} ->
            <<Lit("Add to \""), Txt(Archive_ \o ExtOf(id)), Lit("\"")>>
      [] id \in {"Email7z", "EmailZip"} ->
            <<Lit("Compress to \""), Txt(Archive_ \o ExtOf(id)), Lit("\" and email")>>
      [] id = "ExtractTo" -> <<Lit("Extract to \\<Folder>\\")>>
      [] OTHER -> <<Lit(StaticTitle(id))>>

(* C10: on a null or empty item array, or one none of whose items resolves    *)
(* to a path, Invoke of every action launches nothing and returns S_OK, and   *)
(* GetTitle returns the action's placeholder label with S_OK.                 *)
C10_EmptySelectionIsNoError ==
    NoSelection(arr) =>
        /\ call.op = "Invoke" => result.hr = S_OK /\ result.runs = <<>>
        /\ (call.op = "GetTitle" /\ ~call.ppNull) =>
              result.hr = S_OK /\ result.title = Placeholder(m_id)

\* Invoke of Test on an array of two items, neither with a filesystem path
C10_Witness ==
    /\ call.op = "Invoke"
    /\ m_id = "Test"
    /\ ~arr.isNull
    /\ ~arr.countFails
    /\ Len(arr.items) = 2
    /\ NoSelection(arr)
    /\ result.runs = <<>>

----------------------------------------------------------------------------
LiveObjects == DOMAIN heap

(* C7: g_ObjCount is exactly the number of live objects the module created    *)
(* (root, commands, CRC parent and children, enumerators), and never negative. *)
C7_ObjCountIsLiveObjects ==
    /\ g_ObjCount = Cardinality(LiveObjects)
    /\ g_ObjCount >= 0

----------------------------------------------------------------------------
(* C8: once the host has released every reference it was handed, with no      *)
(* server lock held, every command and enumerator is destroyed, g_ObjCount is *)
(* 0 and DllCanUnloadNow answers S_OK.                                        *)
C8_ReleasedMeansUnloadable ==
    (DOMAIN hostRefs = {} /\ g_LockCount = 0) =>
        /\ LiveObjects = {}
        /\ g_ObjCount = 0
        /\ CanUnloadNow = S_OK

----------------------------------------------------------------------------
\* the m_id of each command an enumerator walks, in order
IdsOf(e) == [i \in 1..Len(heap[e].items) |-> heap[heap[e].items[i]].m_id]

IsCRCEnum(e) == heap[e].kind = "enum" /\ Len(heap[e].items) = Len(CRCChildren)

(* C9: every EnumSubCommands call on the CRC SHA parent, whatever calls came  *)
(* before, succeeds with a new enumerator positioned at the start whose       *)
(* sequence is the four children CRC32, CRC64, SHA1, SHA256 in that order.    *)
C9_HashSubmenuIdempotent ==
    (ret.op = "EnumSubCommands" /\ heap[ret.on].kind = "crcparent") =>
        /\ ret.hr = S_OK
        /\ ret.out \in DOMAIN heap
        /\ heap[ret.out].kind = "enum"
        /\ heap[ret.out].idx = 0
        /\ IdsOf(ret.out) = <<"CRC32", "CRC64", "SHA1", "SHA256">>
        /\ \A e \in DOMAIN heap \ {ret.out} :
              \A i \in 1..Len(heap[ret.out].items) :
                  Occurrences(heap[e].items, heap[ret.out].items[i]) = 0

\* a second EnumSubCommands on the CRC SHA parent, after an earlier one whose
\* enumerator is still alive
C9_Witness ==
    /\ ret.op = "EnumSubCommands"
    /\ heap[ret.on].kind = "crcparent"
    /\ ret.hr = S_OK
    /\ \E e \in DOMAIN heap \ {ret.out} : IsCRCEnum(e)

----------------------------------------------------------------------------
HashIDs == {"CRC32", "CRC64", "SHA1", "SHA256"}

\* the switch that selects each child's algorithm
HashSwitch(id) ==
    CASE id = "CRC32"  -> "h -scrcCRC32 "
      [] id = "CRC64"  -> "h -scrcCRC64 "
      [] id = "SHA1"   -> "h -scrcSHA1 "
      [] id = "SHA256" -> "h -scrcSHA256 "

(* C11: Invoke of the CRC SHA parent launches nothing, whatever the           *)
(* selection; Invoke of each child CRC32, CRC64, SHA1, SHA256 on a non-empty  *)
(* selection launches exactly one run of the CLI tool 7z.exe with that        *)
(* child's switch and the full path list; CRCMenu is the only command whose   *)
(* flags report sub-commands.                                                 *)
C11_HashParentNeverLaunches ==
    /\ (call.op = "Invoke" /\ m_id = "CRCMenu") =>
          result.hr = S_OK /\ result.runs = <<>>
    /\ (call.op = "Invoke" /\ m_id \in HashIDs /\ Sel # <<>>) =>
          /\ result.hr = S_OK
          /\ Len(result.runs) = 1
          /\ result.runs[1].exe.file = "7z.exe"
          /\ result.runs[1].args[1] = Lit(HashSwitch(m_id))
          /\ RunPaths(result.runs[1]) = Sel
          /\ Len(result.runs[1].args) = 1 + 3 * Len(Sel)
    /\ call.op = "GetFlags" =>
          /\ result.hr = S_OK
          /\ result.flags = ECF_HASSUBCOMMANDS <=> m_id = "CRCMenu"

\* Invoke of SHA256 on two paths: one run of 7z.exe with both
C11_Witness ==
    /\ call.op = "Invoke"
    /\ m_id = "SHA256"
    /\ Sel = <<P_a7z, P_btxt>>
    /\ Len(result.runs) = 1
    /\ RunPaths(result.runs[1]) = <<P_a7z, P_btxt>>

----------------------------------------------------------------------------
Enums == {e \in DOMAIN heap : heap[e].kind = "enum"}

\* the step was the call op on enumerator e, which returned hr
WasCall(op, e) == calls' = calls + 1 /\ ret'.op = op /\ ret'.on = e

\* 0 <= idx <= n for every enumerator
CursorInRange == \A e \in Enums : 0 <= heap[e].idx /\ heap[e].idx <= Len(heap[e].items)

\* Next(k): the min(k, n - idx) items after the cursor, the cursor moved past
\* them, S_OK iff k were fetched
NextStep(e) ==
    LET n == Len(heap[e].items)
        i == heap[e].idx
        k == ret'.celt
        f == IF k < n - i THEN k ELSE n - i
    IN  /\ Len(ret'.fetched) = f
        /\ \A j \in 1..f : ret'.fetched[j] = heap[e].items[i + j]
        /\ heap'[e].idx = i + f
        /\ heap'[e].items = heap[e].items
        /\ ret'.hr = IF f = k THEN S_OK ELSE S_FALSE

\* Skip(k): the cursor moved k on, at most to the end
SkipStep(e) ==
    LET n == Len(heap[e].items)
        i == heap[e].idx
    IN  /\ heap'[e].idx = (IF i + ret'.celt < n THEN i + ret'.celt ELSE n)
        /\ heap'[e].items = heap[e].items
        /\ ret'.hr = S_OK

\* Reset: the cursor is before the first command, so Next replays the list
ResetStep(e) ==
    /\ heap'[e].idx = 0
    /\ heap'[e].items = heap[e].items
    /\ NextFetched(heap'[e], Len(heap[e].items)) = heap[e].items
    /\ ret'.hr = S_OK

\* Clone (given a non-null pp): another enumerator, same list, same position
CloneStep(e) ==
    ret'.hr # E_POINTER =>
        /\ ret'.hr = S_OK
        /\ ret'.out \notin DOMAIN heap
        /\ ret'.out \in DOMAIN heap'
        /\ heap'[ret'.out].kind = "enum"
        /\ heap'[ret'.out].items = heap[e].items
        /\ heap'[ret'.out].idx = heap[e].idx
        /\ heap'[e].idx = heap[e].idx

\* a call on anything but e leaves e's list and cursor alone while e lives
Untouched(e) ==
    (ret'.on # e /\ e \in DOMAIN heap') =>
        /\ heap'[e].kind = "enum"
        /\ heap'[e].idx = heap[e].idx
        /\ heap'[e].items = heap[e].items

EnumeratorStep ==
    \A e \in Enums :
        /\ WasCall("Next", e) => NextStep(e)
        /\ WasCall("Skip", e) => SkipStep(e)
        /\ WasCall("Reset", e) => ResetStep(e)
        /\ WasCall("Clone", e) => CloneStep(e)
        /\ Untouched(e)

(* C12: a CommandEnum over n commands keeps 0 <= idx <= n; Next(k) returns    *)
(* the min(k, n-idx) commands from idx on in list order, advances idx by that *)
(* many and returns S_OK iff it fetched k; Reset puts the cursor at the first *)
(* command; Clone yields an enumerator over the same list at the same         *)
(* position, and calls on one enumerator never move another's cursor.         *)
C12_EnumeratorCursor == []CursorInRange /\ [][EnumeratorStep]_vars

\* Next(2) with one command left fetched one and returned S_FALSE, while a
\* clone of the enumerator stayed where it was
C12_Witness ==
    /\ ret.op = "Next"
    /\ ret.celt = 2
    /\ ret.hr = S_FALSE
    /\ Len(ret.fetched) = 1
    /\ heap[ret.on].idx = Len(heap[ret.on].items)
    /\ \E c \in Enums \ {ret.on} :
          /\ heap[c].items = heap[ret.on].items
          /\ heap[c].idx = Len(heap[c].items) - 1

====
